---- MODULE Spec2Model ----
(***************************************************************************)
(* micrometrics, cpp/src/0001-string-interning.cpp.                        *)
(*                                                                         *)
(* The state machines of this module:                                      *)
(*   Spec          the SymbolRegistry driven by concurrent callers, one    *)
(*                 action per statement of get_id / get_symbol;            *)
(*   MainSpec      the benchmark program main(), which drives one registry *)
(*                 from a single thread, on any command line;              *)
(*   ScenarioSpec  MainSpec, and the 1-to-1 and 1-to-many scenarios of     *)
(*                 main entered with any registry, target, workload and    *)
(*                 fanout;                                                 *)
(*   HarnessSpec   main driven against a registry that may answer with a   *)
(*                 wrong ID;                                               *)
(*   FairSpec      concurrent get_id calls alone, every caller that can    *)
(*                 take a step eventually taking one;                      *)
(*   GenSpec       generate_incoming_stream called twice, statement by     *)
(*                 statement, on any counts and seeds.                     *)
(***************************************************************************)
EXTENDS Integers, Sequences, FiniteSets, TLC

VARIABLES
    \* ---- SymbolRegistry (lines 54-75)
    string_to_id_,   \* std::unordered_map<std::string, uint32_t>
    id_to_string_,   \* std::vector<std::string>; C++ index i is TLA+ index i+1
    mtx,             \* std::mutex: NoOwner, or the thread holding it
    \* ---- one frame per calling thread
    pc,              \* the statement each thread is at
    symbol,          \* get_id's parameter
    id,              \* get_symbol's parameter
    new_id,          \* get_id's local (line 66)
    result,          \* what the thread's last completed call returned
    \* ---- history of the calls (read by the properties only)
    unseen,          \* the symbol was unregistered when the thread's call began
    inserted,        \* the thread's call ran lines 66-69
    returned,        \* every <<symbol, ID>> a get_id call has returned
    first_seen,      \* symbols in the order line 63 first failed to find them
    call_order,      \* distinct symbols in the order they were first passed
    overlapped,      \* some get_id call began while another was in progress
    calls,           \* calls begun so far
    \* ---- the benchmark program (lines 136-285)
    argv,            \* the arguments after argv[0], each a sequence of characters
    main,            \* main's locals and the statement it is at
    cout,            \* what was written to std::cout, in order
    cerr,            \* what was written to std::cerr, in order
    exit_code,       \* main's return value (Running until it returns)
    defective,       \* the registry main drives may answer with a wrong ID
    \* ---- generate_incoming_stream (lines 107-117)
    gen,             \* the call's parameters and locals, and the results so far
    build            \* what pick(rng) yields from each engine state in this build

regvars == <<string_to_id_, id_to_string_, mtx>>
framevars == <<pc, symbol, id, new_id, result>>
histvars == <<unseen, inserted, returned, first_seen, call_order, overlapped, calls>>
threadvars == <<framevars, histvars>>
genvars == <<gen, build>>
mainvars == <<argv, main, cout, cerr, exit_code, defective, genvars>>
vars == <<regvars, framevars, histvars, mainvars>>

----------------------------------------------------------------------------
(* Bounds of the model.                                                    *)

NumThreads == 2
MaxCalls == 3
NumSyms == 2
MaxIter == 3
MaxArgLen == 2
PoolReach == 2
MaxFanout == 2
MaxSeed == 1
EngineMod == 3

----------------------------------------------------------------------------
(* Program constants and helpers.                                          *)

SYMBOL_POOL ==
    << "AAPL", "MSFT", "GOOGL", "AMZN", "NVDA",
       "TSLA", "META", "BRK.B", "JPM",  "V",
       "SPY",  "QQQ",  "IWM",   "DIA",  "GLD",
       "TLT",  "VTI",  "EEM",   "XLF",  "HYG",
       "EURUSD", "GBPUSD", "USDJPY", "USDCHF", "AUDUSD",
       "NZDUSD", "USDCAD", "EURGBP", "EURJPY", "GBPJPY",
       "ES",  "NQ",  "CL",  "GC",  "SI",
       "NG",  "ZB",  "ZN",  "ZC",  "ZS",
       "BTCUSD", "ETHUSD", "SOLUSD", "BNBUSD", "XRPUSD" >>

Range(f) == {f[x] : x \in DOMAIN f}

\* static_cast<uint32_t>(n) is n mod 2^32: the identity on every size below
\* 2^31, the largest integer of the model
ToUint32(n) == n

NoOwner == 0
Threads == 1..NumThreads
Symbols == {SYMBOL_POOL[i] : i \in 1..NumSyms}
Ids == 0..(NumSyms - 1)

\* what at() throws, and what a read of storage being rewritten may yield
OutOfRange == "std::out_of_range"
Garbage == "<indeterminate>"
NoText == "<none>"
NoResult == [op |-> "none"]

----------------------------------------------------------------------------
(* SymbolRegistry, statement by statement.                                 *)

\* the lookup never finds the symbol
FoundNever(m, s) == FALSE

\* line 63-64: string_to_id_.find(...) != string_to_id_.end()
Found(m, s) == s \in DOMAIN m

\* the next ID taken one past the size
NextIdOffByOne(v) == ToUint32(Len(v) + 1)

\* line 66: static_cast<uint32_t>(id_to_string_.size())
NextId(v) == ToUint32(Len(v))

\* the forward map is left as it was
MapAssignDropped(m, s, n) == m

\* line 67: string_to_id_[std::string(symbol)] = new_id
MapAssign(m, s, n) == [x \in DOMAIN m \cup {s} |-> IF x = s THEN n ELSE m[x]]

\* line 68: id_to_string_.emplace_back(symbol)
EmplaceBack(v, s) == Append(v, s)

\* line 73: id_to_string_.at(id), with no concurrent writer
At(v, i) == IF i < Len(v) THEN v[i + 1] ELSE OutOfRange

\* get_id run to completion by one caller: the registry after it and the ID
get_id(m, v, s) ==
    IF Found(m, s)
    THEN [map |-> m, vec |-> v, ret |-> m[s]]
    ELSE [map |-> MapAssign(m, s, NextId(v)),
          vec |-> EmplaceBack(v, s),
          ret |-> NextId(v)]

InGetId(t) == pc[t] \in {"lock", "find", "new_id", "assign", "emplace", "return"}

\* a caller enters get_id(s)
get_id_call(t, s) ==
    /\ pc[t] = "idle"
    /\ calls < MaxCalls
    /\ pc' = [pc EXCEPT ![t] = "lock"]
    /\ symbol' = [symbol EXCEPT ![t] = s]
    /\ unseen' = [unseen EXCEPT ![t] = ~Found(string_to_id_, s)]
    /\ inserted' = [inserted EXCEPT ![t] = FALSE]
    /\ call_order' = IF s \in Range(call_order) THEN call_order
                     ELSE Append(call_order, s)
    /\ overlapped' = (overlapped \/ \E u \in Threads \ {t} : InGetId(u))
    /\ calls' = calls + 1
    /\ UNCHANGED <<regvars, id, new_id, result, returned, first_seen>>
    /\ UNCHANGED mainvars

\* the mutex does not exclude a second caller
LockFreeAlways(t) == TRUE

\* line 62: std::lock_guard<std::mutex> lock(mtx)
LockFree(t) == mtx = NoOwner

\* the mutex stays with the caller that returns
UnlockNever(t) == t

\* lines 64, 69: the lock_guard's destructor releases the mutex on return
Unlock(t) == NoOwner

get_id_lock(t) ==
    /\ pc[t] = "lock"
    /\ LockFree(t)
    /\ mtx' = t
    /\ pc' = [pc EXCEPT ![t] = "find"]
    /\ UNCHANGED <<string_to_id_, id_to_string_, symbol, id, new_id, result, histvars>>
    /\ UNCHANGED mainvars

\* lines 63-64: the lookup; a hit returns it->second and releases the mutex
get_id_find(t) ==
    /\ pc[t] = "find"
    /\ IF Found(string_to_id_, symbol[t])
       THEN /\ result' = [result EXCEPT ![t] =
                    [op |-> "get_id", arg |-> symbol[t],
                     val |-> string_to_id_[symbol[t]]]]
            /\ returned' = returned \cup {<<symbol[t], string_to_id_[symbol[t]]>>}
            /\ mtx' = Unlock(t)
            /\ pc' = [pc EXCEPT ![t] = "idle"]
            /\ UNCHANGED first_seen
       ELSE /\ first_seen' = IF symbol[t] \in Range(first_seen) THEN first_seen
                             ELSE Append(first_seen, symbol[t])
            /\ pc' = [pc EXCEPT ![t] = "new_id"]
            /\ UNCHANGED <<result, returned, mtx>>
    /\ UNCHANGED <<string_to_id_, id_to_string_, symbol, id, new_id,
                   unseen, inserted, call_order, overlapped, calls>>
    /\ UNCHANGED mainvars

\* line 66
get_id_new_id(t) ==
    /\ pc[t] = "new_id"
    /\ new_id' = [new_id EXCEPT ![t] = NextId(id_to_string_)]
    /\ inserted' = [inserted EXCEPT ![t] = TRUE]
    /\ pc' = [pc EXCEPT ![t] = "assign"]
    /\ UNCHANGED <<regvars, symbol, id, result, unseen, returned, first_seen,
                   call_order, overlapped, calls>>
    /\ UNCHANGED mainvars

\* line 67
get_id_assign(t) ==
    /\ pc[t] = "assign"
    /\ string_to_id_' = MapAssign(string_to_id_, symbol[t], new_id[t])
    /\ pc' = [pc EXCEPT ![t] = "emplace"]
    /\ UNCHANGED <<id_to_string_, mtx, symbol, id, new_id, result, histvars>>
    /\ UNCHANGED mainvars

\* line 68
get_id_emplace(t) ==
    /\ pc[t] = "emplace"
    /\ id_to_string_' = EmplaceBack(id_to_string_, symbol[t])
    /\ pc' = [pc EXCEPT ![t] = "return"]
    /\ UNCHANGED <<string_to_id_, mtx, symbol, id, new_id, result, histvars>>
    /\ UNCHANGED mainvars

\* line 69: return new_id; the lock_guard releases the mutex
get_id_return(t) ==
    /\ pc[t] = "return"
    /\ result' = [result EXCEPT ![t] =
            [op |-> "get_id", arg |-> symbol[t], val |-> new_id[t]]]
    /\ returned' = returned \cup {<<symbol[t], new_id[t]>>}
    /\ mtx' = Unlock(t)
    /\ pc' = [pc EXCEPT ![t] = "idle"]
    /\ UNCHANGED <<string_to_id_, id_to_string_, symbol, id, new_id,
                   unseen, inserted, first_seen, call_order, overlapped, calls>>
    /\ UNCHANGED mainvars

\* a caller enters get_symbol(i); lines 72-74 take no lock
get_symbol_call(t, i) ==
    /\ pc[t] = "idle"
    /\ calls < MaxCalls
    /\ pc' = [pc EXCEPT ![t] = "at"]
    /\ id' = [id EXCEPT ![t] = i]
    /\ calls' = calls + 1
    /\ UNCHANGED <<regvars, symbol, new_id, result, unseen, inserted, returned,
                   first_seen, call_order, overlapped>>
    /\ UNCHANGED mainvars

\* Another thread is at line 68: its emplace_back writes the vector's size and,
\* when it reallocates, its storage, with nothing ordering it against line 73.
WriterAt68(t) == \E u \in Threads \ {t} : pc[u] = "emplace"

\* What line 73 can produce: at()'s result, or, racing with line 68, the
\* outcome of a range check against a torn size (either way) and of reading
\* an element of storage being moved or freed (Garbage: any other content).
AtOutcomes(t) ==
    IF WriterAt68(t)
    THEN {At(id_to_string_, id[t]), OutOfRange, Garbage}
    ELSE {At(id_to_string_, id[t])}

\* The text whose get_id call has returned ID i so far (none: NoText)
TextOf(i) ==
    IF \E s \in Symbols : <<s, i>> \in returned
    THEN CHOOSE s \in Symbols : <<s, i>> \in returned
    ELSE NoText

\* line 73
get_symbol_at(t) ==
    /\ pc[t] = "at"
    /\ \E r \in AtOutcomes(t) :
          result' = [result EXCEPT ![t] =
              [op |-> "get_symbol", arg |-> id[t], val |-> r,
               assigned |-> Cardinality(DOMAIN string_to_id_),
               expect |-> TextOf(id[t]),
               partial |-> (/\ id[t] \in Range(string_to_id_)
                            /\ At(id_to_string_, id[t]) = OutOfRange)]]
    /\ pc' = [pc EXCEPT ![t] = "idle"]
    /\ UNCHANGED <<regvars, symbol, id, new_id, histvars>>
    /\ UNCHANGED mainvars

----------------------------------------------------------------------------
(* The benchmark program.                                                  *)

DEFAULT_ITERATIONS == 10000000
FANOUT_FIRST == 8
FANOUT_LAST == 1024
TARGET == "BTCUSD"
Running == -1

\* Elapsed times are readings of the clock, which the program only prints
\* and stores: each measurement is carried as the name of its timer.
Elapsed(timer) == timer

\* sink (line 153) is only ever added to (lines 154-155, 215, 218, 283):
\* the program's behaviour does not depend on it and the model leaves it out.

Digits == {"0", "1", "2", "3", "4", "5", "6", "7", "8", "9"}

DigitValue(c) ==
    CASE c = "0" -> 0 [] c = "1" -> 1 [] c = "2" -> 2 [] c = "3" -> 3
      [] c = "4" -> 4 [] c = "5" -> 5 [] c = "6" -> 6 [] c = "7" -> 7
      [] c = "8" -> 8 [] c = "9" -> 9

RECURSIVE SkipSpace(_)
SkipSpace(str) ==
    IF str # << >> /\ Head(str) = " " THEN SkipSpace(Tail(str)) ELSE str

RECURSIVE ParseDigits(_, _)
ParseDigits(str, acc) ==
    IF str = << >> \/ Head(str) \notin Digits THEN acc
    ELSE ParseDigits(Tail(str), acc * 10 + DigitValue(Head(str)))

\* std::atoll: leading white space, an optional sign, then the longest run
\* of decimal digits; 0 when no digit is there to convert
Atoll(str) ==
    LET rest == SkipSpace(str) IN
    IF rest = << >> THEN 0
    ELSE IF Head(rest) = "-" THEN 0 - ParseDigits(Tail(rest), 0)
    ELSE IF Head(rest) = "+" THEN ParseDigits(Tail(rest), 0)
    ELSE ParseDigits(rest, 0)

\* static_cast<std::size_t>(n): n mod 2^64. A negative n becomes a count of
\* at least 2^63, for which the largest integer of the model stands.
ToSizeT(n) == IF n < 0 THEN 2147483647 ELSE n

\* vector::reserve(n) throws std::length_error above max_size(), which is
\* below 2^63 and above every other count of the model
ExceedsMaxSize(n) == n = 2147483647

\* lines 137-138
IterationsFrom(args) ==
    IF Len(args) + 1 > 1 THEN ToSizeT(Atoll(args[1])) ELSE DEFAULT_ITERATIONS

\* the comparison never reports a difference
MismatchNever(a, b) == FALSE

\* lines 187, 244: matches_a != matches_b
Mismatch(a, b) == a # b

\* the loop runs for f <= fanout
FanoutLoopInclusive(hit, fanout_, n) == n + Cardinality({f \in 0..fanout_ : hit})

\* lines 231-232, 239-240: for (f = 0; f < fanout; ++f) if (hit) ++matches;
\* the counter gains one for each f in [0, fanout) whose comparison succeeds
FanoutLoop(hit, fanout_, n) == n + Cardinality({f \in 0..(fanout_ - 1) : hit})

\* the direct path compares each element once, whatever the fanout
DirectLoopOnce(stream, text, f, n) == n + Cardinality({j \in 1..Len(stream) : stream[j] = text})

\* lines 182-184, 238-241: the direct path over the whole stream, f
\* comparisons of text per element (the 1-to-1 scenario makes one)
RECURSIVE DirectLoop(_, _, _, _)
DirectLoop(stream, text, f, n) ==
    IF stream = << >> THEN n
    ELSE DirectLoop(Tail(stream), text, f, FanoutLoop(Head(stream) = text, f, n))

\* What registry.get_id(s) does for main: the registry's own get_id, run
\* under the mutex from entry to return; a defective registry may hand back
\* another ID in its place.
Lookup(s) ==
    LET r == get_id(string_to_id_, id_to_string_, s) IN
    IF defective
    THEN {r} \cup {[r EXCEPT !.ret = x] : x \in {0, main.target_id}}
    ELSE {r}

RegistryBecomes(r) ==
    /\ string_to_id_' = r.map
    /\ id_to_string_' = r.vec
    /\ UNCHANGED mtx

\* What the generator may draw: std::mt19937 and uniform_int_distribution
\* yield an index of the pool per element.
Drawn == {SYMBOL_POOL[j] : j \in 1..PoolReach} \cup {TARGET}

\* lines 107-117
generate_incoming_stream(n) == [1..n -> Drawn]

Locals ==
    [pc |-> "args", ITERATIONS |-> 0, target_string |-> "", target_id |-> 0,
     incoming |-> << >>, i |-> 0,
     matches_a |-> 0, matches_b |-> 0, matches_c |-> 0, matches_d |-> 0,
     ms_a |-> "", ms_b |-> "", ms_c |-> "", ms_d |-> "",
     fanout |-> 0, fanout_results |-> << >>]

Others == UNCHANGED <<threadvars, argv, defective, genvars>>

\* lines 136-142
main_args ==
    /\ main.pc = "args"
    /\ main' = [main EXCEPT !.ITERATIONS = IterationsFrom(argv),
                            !.pc = "preregister", !.i = 0]
    /\ cout' = Append(cout, <<"header", IterationsFrom(argv), Len(SYMBOL_POOL)>>)
    /\ UNCHANGED <<regvars, cerr, exit_code>>
    /\ Others

\* lines 144-146
main_preregister ==
    /\ main.pc = "preregister"
    /\ IF main.i < Len(SYMBOL_POOL)
       THEN /\ \E r \in Lookup(SYMBOL_POOL[main.i + 1]) : RegistryBecomes(r)
            /\ main' = [main EXCEPT !.i = main.i + 1]
       ELSE /\ main' = [main EXCEPT !.pc = "target"]
            /\ UNCHANGED regvars
    /\ UNCHANGED <<cout, cerr, exit_code>>
    /\ Others

\* lines 148-149
main_target ==
    /\ main.pc = "target"
    /\ \E r \in Lookup(TARGET) :
          /\ RegistryBecomes(r)
          /\ main' = [main EXCEPT !.target_string = TARGET, !.target_id = r.ret,
                                  !.pc = "generate"]
    /\ UNCHANGED <<cout, cerr, exit_code>>
    /\ Others

\* line 151; a count above max_size() ends the program in std::terminate.
\* Runs are followed for workloads of at most MaxIter elements.
main_generate ==
    /\ main.pc = "generate"
    /\ \/ /\ ExceedsMaxSize(main.ITERATIONS)
          /\ main' = [main EXCEPT !.pc = "terminated"]
       \/ /\ main.ITERATIONS <= MaxIter
          /\ \E stream \in generate_incoming_stream(main.ITERATIONS) :
                main' = [main EXCEPT !.incoming = stream, !.pc = "warmup", !.i = 0]
    /\ UNCHANGED <<regvars, cout, cerr, exit_code>>
    /\ Others

\* lines 153-155
main_warmup ==
    /\ main.pc = "warmup"
    /\ IF main.i < Len(main.incoming)
       THEN /\ \E r \in Lookup(main.incoming[main.i + 1]) : RegistryBecomes(r)
            /\ main' = [main EXCEPT !.i = main.i + 1]
       ELSE /\ main' = [main EXCEPT !.pc = "t1_header"]
            /\ UNCHANGED regvars
    /\ UNCHANGED <<cout, cerr, exit_code>>
    /\ Others

\* lines 157-173
main_t1_header ==
    /\ main.pc = "t1_header"
    /\ cout' = Append(cout, <<"1-to-1">>)
    /\ main' = [main EXCEPT !.matches_a = 0, !.i = 0, !.pc = "t1_registry"]
    /\ UNCHANGED <<regvars, cerr, exit_code>>
    /\ Others

\* lines 174-178
main_t1_registry ==
    /\ main.pc = "t1_registry"
    /\ IF main.i < Len(main.incoming)
       THEN \E r \in Lookup(main.incoming[main.i + 1]) :
               /\ RegistryBecomes(r)
               /\ main' = [main EXCEPT
                     !.matches_a = IF r.ret = main.target_id THEN @ + 1 ELSE @,
                     !.i = main.i + 1]
       ELSE /\ main' = [main EXCEPT !.ms_a = Elapsed("ta"), !.pc = "t1_direct"]
            /\ UNCHANGED regvars
    /\ UNCHANGED <<cout, cerr, exit_code>>
    /\ Others

\* lines 180-185
main_t1_direct ==
    /\ main.pc = "t1_direct"
    /\ main' = [main EXCEPT
          !.matches_b = DirectLoop(main.incoming, main.target_string, 1, 0),
          !.ms_b = Elapsed("tb"), !.pc = "t1_check"]
    /\ UNCHANGED <<regvars, cout, cerr, exit_code>>
    /\ Others

\* lines 187-195, and 204-212 up to the sweep's first test
main_t1_check ==
    /\ main.pc = "t1_check"
    /\ IF Mismatch(main.matches_a, main.matches_b)
       THEN /\ cerr' = Append(cerr, <<"ERROR [1-to-1]", main.matches_a, main.matches_b>>)
            /\ exit_code' = 1
            /\ main' = [main EXCEPT !.pc = "exit"]
            /\ UNCHANGED cout
       ELSE /\ cout' = cout \o
                 << <<"row", "Registry (lookup + ID cmp)", main.ms_a, main.matches_a>>,
                    <<"row", "Direct std::string cmp", main.ms_b, main.matches_b>>,
                    <<"speedup", main.ms_a, main.ms_b>> >>
            /\ main' = [main EXCEPT !.fanout_results = << >>,
                                    !.fanout = FANOUT_FIRST, !.pc = "sweep"]
            /\ UNCHANGED <<cerr, exit_code>>
    /\ UNCHANGED regvars
    /\ Others

\* the sweep stops before its last value
SweepContinuesBelow(fanout_) == fanout_ < FANOUT_LAST

\* line 212: fanout <= 1024
SweepContinues(fanout_) == fanout_ <= FANOUT_LAST

\* line 212: the test of the sweep
main_sweep ==
    /\ main.pc = "sweep"
    /\ main' = [main EXCEPT !.i = 0,
          !.pc = IF SweepContinues(main.fanout) THEN "sw_warmup" ELSE "summary"]
    /\ UNCHANGED <<regvars, cout, cerr, exit_code>>
    /\ Others

\* lines 213-218
main_sw_warmup ==
    /\ main.pc = "sw_warmup"
    /\ IF main.i < Len(main.incoming)
       THEN /\ \E r \in Lookup(main.incoming[main.i + 1]) : RegistryBecomes(r)
            /\ main' = [main EXCEPT !.i = main.i + 1]
       ELSE /\ main' = [main EXCEPT !.pc = "sw_header"]
            /\ UNCHANGED regvars
    /\ UNCHANGED <<cout, cerr, exit_code>>
    /\ Others

\* lines 220-228
main_sw_header ==
    /\ main.pc = "sw_header"
    /\ cout' = Append(cout, <<"1-to-many", main.fanout>>)
    /\ main' = [main EXCEPT !.matches_c = 0, !.i = 0, !.pc = "sw_registry"]
    /\ UNCHANGED <<regvars, cerr, exit_code>>
    /\ Others

\* lines 229-234
main_sw_registry ==
    /\ main.pc = "sw_registry"
    /\ IF main.i < Len(main.incoming)
       THEN \E r \in Lookup(main.incoming[main.i + 1]) :
               /\ RegistryBecomes(r)
               /\ main' = [main EXCEPT
                     !.matches_c = FanoutLoop(r.ret = main.target_id, main.fanout, @),
                     !.i = main.i + 1]
       ELSE /\ main' = [main EXCEPT !.ms_c = Elapsed("tc"), !.pc = "sw_direct"]
            /\ UNCHANGED regvars
    /\ UNCHANGED <<cout, cerr, exit_code>>
    /\ Others

\* lines 236-242
main_sw_direct ==
    /\ main.pc = "sw_direct"
    /\ main' = [main EXCEPT
          !.matches_d = DirectLoop(main.incoming, main.target_string, main.fanout, 0),
          !.ms_d = Elapsed("td"), !.pc = "sw_check"]
    /\ UNCHANGED <<regvars, cout, cerr, exit_code>>
    /\ Others

\* lines 244-254, and line 212's fanout *= 2
main_sw_check ==
    /\ main.pc = "sw_check"
    /\ IF Mismatch(main.matches_c, main.matches_d)
       THEN /\ cerr' = Append(cerr, <<"ERROR [1-to-many]", main.fanout,
                                      main.matches_c, main.matches_d>>)
            /\ exit_code' = 1
            /\ main' = [main EXCEPT !.pc = "exit"]
            /\ UNCHANGED cout
       ELSE /\ cout' = cout \o
                 << <<"row", "Registry (lookup + NxID cmp)", main.ms_c, main.matches_c>>,
                    <<"row", "Direct Nxstd::string cmp", main.ms_d, main.matches_d>>,
                    <<"speedup", main.ms_c, main.ms_d>> >>
            /\ main' = [main EXCEPT
                  !.fanout_results = Append(@,
                      [fanout |-> main.fanout, ms_registry |-> main.ms_c,
                       ms_direct |-> main.ms_d, matches |-> main.matches_c]),
                  !.fanout = main.fanout * 2,
                  !.pc = "sweep"]
            /\ UNCHANGED <<cerr, exit_code>>
    /\ UNCHANGED regvars
    /\ Others

\* lines 257-284
main_summary ==
    /\ main.pc = "summary"
    /\ cout' = cout \o << <<"summary">> >> \o
          [j \in 1..Len(main.fanout_results) |->
              <<"summary_row", main.fanout_results[j].fanout,
                main.fanout_results[j].ms_registry,
                main.fanout_results[j].ms_direct>>]
    /\ exit_code' = 0
    /\ main' = [main EXCEPT !.pc = "exit"]
    /\ UNCHANGED <<regvars, cerr>>
    /\ Others


----------------------------------------------------------------------------
(* generate_incoming_stream, statement by statement.                       *)

\* std::mt19937 is a state machine: its constructor fixes the state from the
\* seed and each draw moves it on. The states of the model are 0..EngineMod-1.
EngineStates == 0..(EngineMod - 1)

\* the indices pick(rng) may yield: uniform_int_distribution over
\* [0, SYMBOL_POOL.size() - 1], of which the model reaches those of Drawn
PickRange == (0..(PoolReach - 1)) \cup {40}

\* uniform_int_distribution's mapping is the implementation's choice, fixed
\* for a build: any function from the engine's state to an index
Builds == [EngineStates -> PickRange]

\* line 108: unsigned seed = 42
DEFAULT_SEED == 42
Seeds == (0..MaxSeed) \cup {DEFAULT_SEED}

\* the engine carries on from the state an earlier call left
SeedEngineCarried(seed, left) == left

\* line 109: std::mt19937 rng(seed), a local of the call; left is the state
\* the storage held before
SeedEngine(seed, left) == seed % EngineMod

\* line 115: pick(rng) moves the engine on
Twist(x) == (x + 1) % EngineMod

\* line 115: SYMBOL_POOL[pick(rng)], copied
PoolAt(i) == SYMBOL_POOL[i + 1]

GenLocals ==
    [pc |-> "idle", n |-> 0, seed |-> 0, rng |-> 0, stream |-> << >>, i |-> 0,
     results |-> << >>]

GenOthers == UNCHANGED <<regvars, threadvars, argv, main, cout, cerr, exit_code,
                         defective, build>>

\* line 108: a call with count n and a seed
generate_call(n, seed) ==
    /\ gen.pc = "idle"
    /\ Len(gen.results) < 2
    /\ gen' = [gen EXCEPT !.n = n, !.seed = seed, !.pc = "rng"]
    /\ GenOthers

\* lines 109-111
generate_rng ==
    /\ gen.pc = "rng"
    /\ gen' = [gen EXCEPT !.rng = SeedEngine(gen.seed, gen.rng), !.pc = "reserve"]
    /\ GenOthers

\* lines 112-113
generate_reserve ==
    /\ gen.pc = "reserve"
    /\ gen' = [gen EXCEPT !.stream = << >>, !.i = 0, !.pc = "push_back"]
    /\ GenOthers

\* lines 114-115
generate_push_back ==
    /\ gen.pc = "push_back"
    /\ IF gen.i < gen.n
       THEN gen' = [gen EXCEPT !.stream = Append(@, PoolAt(build[gen.rng])),
                               !.rng = Twist(@), !.i = @ + 1]
       ELSE gen' = [gen EXCEPT !.pc = "return"]
    /\ GenOthers

\* line 116
generate_return ==
    /\ gen.pc = "return"
    /\ gen' = [gen EXCEPT
          !.results = Append(@, [n |-> gen.n, seed |-> gen.seed, stream |-> gen.stream]),
          !.pc = "idle"]
    /\ GenOthers

----------------------------------------------------------------------------
(* The specifications.                                                     *)

RegistryInit ==
    /\ string_to_id_ = << >>
    /\ id_to_string_ = << >>
    /\ mtx = NoOwner

ThreadsInit ==
    /\ pc = [t \in Threads |-> "idle"]
    /\ symbol = [t \in Threads |-> ""]
    /\ id = [t \in Threads |-> 0]
    /\ new_id = [t \in Threads |-> 0]
    /\ result = [t \in Threads |-> NoResult]
    /\ unseen = [t \in Threads |-> FALSE]
    /\ inserted = [t \in Threads |-> FALSE]
    /\ returned = {}
    /\ first_seen = << >>
    /\ call_order = << >>
    /\ overlapped = FALSE
    /\ calls = 0

ProcessInit ==
    /\ cout = << >>
    /\ cerr = << >>
    /\ exit_code = Running
    /\ gen = GenLocals
    /\ build = [x \in EngineStates |-> 0]

\* The registry alone, shared by the calling threads; no program runs.
Init ==
    /\ RegistryInit
    /\ ThreadsInit
    /\ ProcessInit
    /\ argv = << >>
    /\ main = [Locals EXCEPT !.pc = "none"]
    /\ defective = FALSE

Next ==
    \E t \in Threads :
        \/ \E s \in Symbols : get_id_call(t, s)
        \/ get_id_lock(t)
        \/ get_id_find(t)
        \/ get_id_new_id(t)
        \/ get_id_assign(t)
        \/ get_id_emplace(t)
        \/ get_id_return(t)
        \/ \E i \in Ids : get_symbol_call(t, i)
        \/ get_symbol_at(t)

Spec == Init /\ [][Next]_vars

\* a step of a get_id call already entered
get_id_step(t) ==
    \/ get_id_lock(t)
    \/ get_id_find(t)
    \/ get_id_new_id(t)
    \/ get_id_assign(t)
    \/ get_id_emplace(t)
    \/ get_id_return(t)

GetIdNext ==
    \E t \in Threads :
        \/ \E s \in Symbols : get_id_call(t, s)
        \/ get_id_step(t)

\* Finitely many get_id calls (at most MaxCalls) under a fair scheduler: a
\* caller whose next statement can run, runs it. std::mutex promises no
\* order among waiters, so lock() is only weakly fair too.
FairSpec == Init /\ [][GetIdNext]_vars /\ \A t \in Threads : WF_vars(get_id_step(t))

\* Strings of at most MaxArgLen of these characters stand for argv[1].
ArgChars == {"1", "3", "x", "-"}
ArgStrings == UNION {[1..n -> ArgChars] : n \in 0..MaxArgLen}
Args == {<< >>} \cup {<<str>> : str \in ArgStrings}

\* The program from its entry, with any command line.
MainInit ==
    /\ RegistryInit
    /\ ThreadsInit
    /\ ProcessInit
    /\ argv \in Args
    /\ main = Locals
    /\ defective = FALSE

MainNext ==
    \/ main_args
    \/ main_preregister
    \/ main_target
    \/ main_generate
    \/ main_warmup
    \/ main_t1_header
    \/ main_t1_registry
    \/ main_t1_direct
    \/ main_t1_check
    \/ main_sweep
    \/ main_sw_warmup
    \/ main_sw_header
    \/ main_sw_registry
    \/ main_sw_direct
    \/ main_sw_check
    \/ main_summary

MainSpec == MainInit /\ [][MainNext]_vars

\* The program against a registry that may answer with a wrong ID: the
\* defect the comparisons of lines 187 and 244 are there to catch.
HarnessInit ==
    /\ RegistryInit
    /\ ThreadsInit
    /\ ProcessInit
    /\ argv \in Args
    /\ main = Locals
    /\ defective = TRUE

HarnessSpec == HarnessInit /\ [][MainNext]_vars

\* get_id applied to each symbol of a sequence in turn
RECURSIVE RegisterAll(_, _, _)
RegisterAll(m, v, syms) ==
    IF syms = << >> THEN [map |-> m, vec |-> v, ret |-> 0]
    ELSE LET r == get_id(m, v, Head(syms)) IN RegisterAll(r.map, r.vec, Tail(syms))

\* A scenario on its own: none or some of the pool's symbols registered
\* beforehand, any target, its ID obtained from the registry (line 149), any
\* workload, and the 1-to-1 scenario (f = 0) or the 1-to-many scenario at
\* any fanout from 1, after which the sweep doubles it.
ScenarioInit ==
    /\ ThreadsInit
    /\ ProcessInit
    /\ argv = << >>
    /\ defective = FALSE
    /\ mtx = NoOwner
    /\ \E n \in {0, PoolReach}, text \in {TARGET, SYMBOL_POOL[1]}, len \in 0..MaxIter :
       \E stream \in [1..len -> Drawn], f \in 0..MaxFanout :
          LET before == RegisterAll(<< >>, << >>, SubSeq(SYMBOL_POOL, 1, n))
              r == get_id(before.map, before.vec, text)
          IN /\ string_to_id_ = r.map
             /\ id_to_string_ = r.vec
             /\ main = [Locals EXCEPT
                   !.ITERATIONS = len, !.incoming = stream,
                   !.target_string = text, !.target_id = r.ret,
                   !.fanout = f,
                   !.pc = IF f = 0 THEN "t1_registry" ELSE "sw_registry"]

\* The program as it runs, and each scenario on any inputs.
ScenarioSpec == (MainInit \/ ScenarioInit) /\ [][MainNext]_vars

\* generate_incoming_stream alone, in any build; no program runs.
GenInit ==
    /\ RegistryInit
    /\ ThreadsInit
    /\ cout = << >>
    /\ cerr = << >>
    /\ exit_code = Running
    /\ argv = << >>
    /\ main = [Locals EXCEPT !.pc = "none"]
    /\ defective = FALSE
    /\ gen = GenLocals
    /\ build \in Builds

GenNext ==
    \/ \E n \in 0..MaxIter, seed \in Seeds : generate_call(n, seed)
    \/ generate_rng
    \/ generate_reserve
    \/ generate_push_back
    \/ generate_return

GenSpec == GenInit /\ [][GenNext]_vars

----------------------------------------------------------------------------
(* Properties of the registry under concurrent callers (Spec).             *)

Count(v, s) == Cardinality({i \in 1..Len(v) : v[i] = s})
IdsOf(s) == {p[2] : p \in {q \in returned : q[1] = s}}
DoneGetId(t) == pc[t] = "idle" /\ result[t].op = "get_id"
Quiescent == \A t \in Threads : ~InGetId(t)

\* C1: concurrent get_id calls on the same not-yet-registered symbol make
\* exactly one assignment (the reverse table holds the symbol exactly once,
\* and at most one of the calls ran the insert) and all return the same ID;
\* no symbol is ever given two distinct IDs.
C1_OneAssignmentSameId ==
    /\ \A s \in Symbols :
          /\ Count(id_to_string_, s) <= 1
          /\ Cardinality(IdsOf(s)) <= 1
          /\ IdsOf(s) # {} =>
                /\ Count(id_to_string_, s) = 1
                /\ Found(string_to_id_, s)
                /\ IdsOf(s) = {string_to_id_[s]}
    /\ \A t, u \in Threads :
          (/\ t # u
           /\ DoneGetId(t) /\ DoneGetId(u)
           /\ result[t].arg = result[u].arg
           /\ unseen[t] /\ unseen[u])
          => /\ result[t].val = result[u].val
             /\ ~(inserted[t] /\ inserted[u])

\* Two calls that both began while the symbol was unregistered have returned.
C1_Witness ==
    \E t, u \in Threads :
        /\ t # u
        /\ DoneGetId(t) /\ DoneGetId(u)
        /\ result[t].arg = result[u].arg
        /\ unseen[t] /\ unseen[u]
        /\ inserted[t] /\ ~inserted[u]

\* C2: every registry access, get_symbol included, runs inside the exclusive
\* section, so no call reads the pair half-updated: get_symbol is never
\* asked for an ID the forward map holds while the reverse table has no
\* entry for it.
C2_ExclusiveAccess ==
    \A t \in Threads : result[t].op = "get_symbol" => ~result[t].partial

\* C3: once every get_id call begun has returned, with k distinct symbols
\* passed, the IDs assigned are exactly 0..k-1 without gaps or duplicates and
\* the i-th symbol first seen by the registry holds ID i-1; first-seen order
\* is the order of the calls when no two calls overlapped.
C3_DenseFirstSeen ==
    /\ Len(id_to_string_) <= Len(first_seen)
    /\ Len(first_seen) <= Len(id_to_string_) + 1
    /\ SubSeq(first_seen, 1, Len(id_to_string_)) = id_to_string_
    /\ Quiescent =>
          LET k == Cardinality(Range(call_order)) IN
          /\ DOMAIN string_to_id_ = Range(call_order)
          /\ {string_to_id_[s] : s \in DOMAIN string_to_id_} = 0..(k - 1)
          /\ {p[2] : p \in returned} = 0..(k - 1)
          /\ Len(first_seen) = k
          /\ \A i \in 1..k : string_to_id_[first_seen[i]] = i - 1
          /\ ~overlapped => first_seen = call_order

\* Two distinct symbols and a repeat have been passed, and all have returned.
C3_Witness ==
    /\ Quiescent
    /\ Len(call_order) >= 2
    /\ Cardinality({t \in Threads : DoneGetId(t)}) >= 2
    /\ \E t \in Threads : DoneGetId(t) /\ ~unseen[t]

\* C4: for every ID a get_id(s) call has returned, reverse[forward[s]] is s
\* and a later get_symbol(id) returns exactly s.
C4_RoundTrip ==
    /\ \A p \in returned : At(id_to_string_, string_to_id_[p[1]]) = p[1]
    /\ \A t \in Threads :
          (result[t].op = "get_symbol" /\ result[t].expect # NoText)
          => result[t].val = result[t].expect

\* C5: no step removes or reassigns an entry (the forward map keeps every
\* key and its ID, the reverse table only grows at its end); a step of a
\* get_id call whose symbol is already registered changes neither structure;
\* and every get_id(s) that returns, returns the ID an earlier one returned.
C5_StableGrowOnly ==
    [][ /\ \A s \in DOMAIN string_to_id_ :
              s \in DOMAIN string_to_id_' /\ string_to_id_'[s] = string_to_id_[s]
        /\ Len(id_to_string_') >= Len(id_to_string_)
        /\ SubSeq(id_to_string_', 1, Len(id_to_string_)) = id_to_string_
        /\ \A t \in Threads :
              (pc'[t] # pc[t] /\ InGetId(t) /\ symbol[t] \in Range(id_to_string_))
              => UNCHANGED <<string_to_id_, id_to_string_>>
        /\ \A p \in returned' : \A q \in returned : p[1] = q[1] => p[2] = q[2]
      ]_vars

\* A get_id call on an already-registered symbol has returned.
C5_Witness ==
    \E t \in Threads : DoneGetId(t) /\ ~unseen[t] /\ ~inserted[t]

\* C6: get_symbol(id) fails with OutOfRange, and returns no text, whenever
\* id is at least the number of IDs assigned so far.
C6_OutOfRange ==
    \A t \in Threads :
        (result[t].op = "get_symbol" /\ result[t].arg >= result[t].assigned)
        => result[t].val = OutOfRange

----------------------------------------------------------------------------
(* Properties of the benchmark program.                                    *)

\* the number of elements of a stream equal to a text
CountEq(stream, text) == Cardinality({j \in 1..Len(stream) : stream[j] = text})

Seen == SubSeq(main.incoming, 1, main.i)

\* C7: for any workload, any target whose ID came from the registry and any
\* fanout F >= 1 (the 1-to-1 scenario being F = 1), the registry path and
\* the direct path count the same matches when they are compared, and the
\* run is never aborted for a mismatch.
C7_CrossPathEquivalence ==
    /\ main.pc = "t1_check" => main.matches_a = main.matches_b
    /\ main.pc = "sw_check" => main.matches_c = main.matches_d
    /\ exit_code # 1
    /\ cerr = << >>

\* A 1-to-many comparison is reached with matching and other elements in
\* the workload, one of them registered only by the scenario itself.
C7_Witness ==
    /\ main.pc = "sw_check"
    /\ main.fanout > 1
    /\ main.matches_c > 0
    /\ main.matches_c = main.matches_d
    /\ Len(id_to_string_) < Len(SYMBOL_POOL)
    /\ \E j \in 1..Len(main.incoming) :
          /\ main.incoming[j] # main.target_string
          /\ string_to_id_[main.incoming[j]] > main.target_id

\* C8: in the 1-to-many scenario each element equal to the target adds
\* exactly F to the counter and every other element adds nothing, on both
\* paths, so each path reports F times the number of elements equal to the
\* target (the 1-to-1 scenario: that number itself); with the workloads and
\* fanouts the specification gives as examples, 2, 8 and 0.
C8_FanoutTimesMatches ==
    /\ main.pc = "sw_registry" =>
          main.matches_c = main.fanout * CountEq(Seen, main.target_string)
    /\ main.pc \in {"sw_direct", "sw_check"} =>
          main.matches_c = main.fanout * CountEq(main.incoming, main.target_string)
    /\ main.pc = "sw_check" =>
          main.matches_d = main.fanout * CountEq(main.incoming, main.target_string)
    /\ main.pc = "t1_registry" => main.matches_a = CountEq(Seen, main.target_string)
    /\ main.pc = "t1_check" =>
          /\ main.matches_a = CountEq(main.incoming, main.target_string)
          /\ main.matches_b = CountEq(main.incoming, main.target_string)
    /\ (/\ main.pc = "sw_check"
        /\ main.target_string = "BTCUSD"
        /\ main.incoming = <<"BTCUSD", "AAPL", "BTCUSD">>) =>
          /\ main.fanout = 1 => main.matches_c = 2 /\ main.matches_d = 2
          /\ main.fanout = 4 => main.matches_c = 8 /\ main.matches_d = 8
    /\ (/\ main.pc = "sw_check"
        /\ main.target_string = "BTCUSD"
        /\ main.incoming = <<"AAPL", "MSFT">>
        /\ main.fanout = 8) =>
          main.matches_c = 0 /\ main.matches_d = 0

\* Workload [BTCUSD, AAPL, BTCUSD], target BTCUSD, fanout 4: both report 8.
C8_Witness ==
    /\ main.pc = "sw_check"
    /\ main.target_string = "BTCUSD"
    /\ main.incoming = <<"BTCUSD", "AAPL", "BTCUSD">>
    /\ main.fanout = 4
    /\ main.matches_c = 8
    /\ main.matches_d = 8

NoDigit(str) == \A j \in 1..Len(str) : str[j] \notin Digits

Rows == Cardinality({j \in 1..Len(cout) : cout[j][1] = "row"})
Summaries == Cardinality({j \in 1..Len(cout) : cout[j][1] = "summary"})

\* C10: when the two counts of the 1-to-1 scenario or of a fanout point
\* disagree, the next step ends the run with exit code 1, having written
\* to the error stream one diagnostic naming the scenario (and fanout) and
\* the two counts, and nothing to the output; nothing runs after the
\* program has returned; and it returns 0 only with no diagnostic written,
\* the counts of the 1-to-1 scenario and of the last fanout point equal and
\* a result kept for every fanout point.
C10_MismatchIsFatal ==
    [][ /\ main.pc # "exit"
        /\ (main.pc = "t1_check" /\ main.matches_a # main.matches_b) =>
              /\ exit_code' = 1
              /\ main.pc' = "exit"
              /\ cerr' = <<<<"ERROR [1-to-1]", main.matches_a, main.matches_b>>>>
              /\ cout' = cout
              /\ Rows = 0 /\ Summaries = 0
        /\ (main.pc = "sw_check" /\ main.matches_c # main.matches_d) =>
              /\ exit_code' = 1
              /\ main.pc' = "exit"
              /\ cerr' = <<<<"ERROR [1-to-many]", main.fanout,
                            main.matches_c, main.matches_d>>>>
              /\ cout' = cout
              /\ Rows = 2 + 2 * Len(main.fanout_results) /\ Summaries = 0
              /\ \A j \in 1..Len(main.fanout_results) :
                    main.fanout_results[j].fanout < main.fanout
        /\ exit_code' = 0 =>
              /\ cerr' = << >>
              /\ main.matches_a = main.matches_b
              /\ main.matches_c = main.matches_d
              /\ Len(main.fanout_results) = 8
        /\ exit_code' # exit_code => (exit_code = Running /\ main.pc' = "exit")
      ]_vars

\* The run has ended with exit code 1 at a fanout point after the first.
C10_Witness ==
    /\ exit_code = 1
    /\ main.pc = "exit"
    /\ Len(cerr) = 1
    /\ cerr[1][1] = "ERROR [1-to-many]"
    /\ Len(main.fanout_results) >= 1

----------------------------------------------------------------------------
(* Properties of the sweep and of the output (MainSpec).                   *)

RECURSIVE Pow2(_)
Pow2(k) == IF k = 0 THEN 1 ELSE 2 * Pow2(k - 1)

\* the k-th value of the sweep, k from 1: 8, 16, ..., 1024
SweepValue(k) == 8 * Pow2(k - 1)

InSweepBody == main.pc \in {"sw_warmup", "sw_header", "sw_registry", "sw_direct", "sw_check"}

\* What the j-th token of the output must be on a run that ends normally:
\* the header, the 1-to-1 table (title, two rows, speedup), one 1-to-many
\* table per sweep value in sweep order, then the summary and its rows.
OutputShape(j) ==
    IF j = 1 THEN cout[j][1] = "header"
    ELSE IF j = 2 THEN cout[j] = <<"1-to-1">>
    ELSE IF j \in {3, 4} THEN cout[j][1] = "row"
    ELSE IF j = 5 THEN cout[j][1] = "speedup"
    ELSE IF j <= 5 + 4 * 8
    THEN LET k == ((j - 6) \div 4) + 1
             at == (j - 6) % 4
         IN IF at = 0 THEN cout[j] = <<"1-to-many", SweepValue(k)>>
            ELSE IF at = 3 THEN cout[j][1] = "speedup"
            ELSE /\ cout[j][1] = "row"
                 /\ k <= Len(main.fanout_results) => cout[j][4] = main.fanout_results[k].matches
    ELSE IF j = 6 + 4 * 8 THEN cout[j] = <<"summary">>
    ELSE LET k == j - (6 + 4 * 8)
         IN /\ k <= Len(main.fanout_results)
            /\ cout[j] = <<"summary_row", main.fanout_results[k].fanout,
                           main.fanout_results[k].ms_registry,
                           main.fanout_results[k].ms_direct>>

SweepShape ==
    /\ Len(main.fanout_results) <= 8
    /\ \A k \in 1..Len(main.fanout_results) :
          main.fanout_results[k].fanout = SweepValue(k)
    /\ InSweepBody =>
          /\ Len(main.fanout_results) < 8
          /\ main.fanout = SweepValue(Len(main.fanout_results) + 1)
    /\ main.pc = "summary" => Len(main.fanout_results) = 8
    /\ \A j \in 1..Len(cout) : OutputShape(j)
    /\ exit_code = 0 =>
          /\ Len(main.fanout_results) = 8
          /\ Len(cout) = 6 + 5 * 8

\* C11: on a run with no correctness violation the sweep visits exactly 8,
\* 16, ..., 1024 in that order and then stops; each visited value appends
\* exactly one Fanout Result (the fanout, the two times measured at it and
\* the count both paths agreed on) and no result is modified afterwards;
\* the summary lists the 8 results in sweep order; and the output is the
\* header, the 1-to-1 table, one 1-to-many table per sweep value, then the
\* summary table.
C11_SweepAndOutputOrder ==
    [][ /\ SweepShape'
        /\ Len(main.fanout_results) <= Len(main.fanout_results')
        /\ SubSeq(main.fanout_results', 1, Len(main.fanout_results)) = main.fanout_results
        /\ LET grown == main.fanout_results' # main.fanout_results IN
           /\ grown <=> (main.pc = "sw_check" /\ main.pc' = "sweep")
           /\ grown =>
                 /\ main.matches_c = main.matches_d
                 /\ main.fanout_results' = Append(main.fanout_results,
                        [fanout |-> main.fanout, ms_registry |-> main.ms_c,
                         ms_direct |-> main.ms_d, matches |-> main.matches_c])
        /\ SubSeq(cout', 1, Len(cout)) = cout
        /\ (main.pc = "sweep" /\ main.pc' = "summary") => main.fanout = 2 * FANOUT_LAST
      ]_vars

\* A run on a workload that holds the target has ended normally: 8 results,
\* the last at 1024, and the whole output written.
C11_Witness ==
    /\ exit_code = 0
    /\ main.pc = "exit"
    /\ Len(main.fanout_results) = 8
    /\ main.fanout_results[8].fanout = 1024
    /\ main.fanout_results[1].matches > 0
    /\ cout[Len(cout)][1] = "summary_row"
    /\ cout[Len(cout)][2] = 1024

----------------------------------------------------------------------------
(* Properties of generate_incoming_stream (GenSpec).                       *)

\* C12: generate_incoming_stream(n, seed) is deterministic: two calls with
\* the same (n, seed) return element-wise equal sequences; the sequence
\* returned has exactly n elements, each equal to a member of the 45-entry
\* SYMBOL_POOL (and one main may be handed); while a call runs, what it has
\* built is the first elements of what it returns.
C12_GeneratorDeterministic ==
    /\ Len(SYMBOL_POOL) = 45
    /\ \A a, b \in 1..Len(gen.results) :
          (gen.results[a].n = gen.results[b].n /\ gen.results[a].seed = gen.results[b].seed)
          => /\ Len(gen.results[a].stream) = Len(gen.results[b].stream)
             /\ \A j \in 1..Len(gen.results[a].stream) :
                   gen.results[a].stream[j] = gen.results[b].stream[j]
    /\ \A a \in 1..Len(gen.results) :
          /\ Len(gen.results[a].stream) = gen.results[a].n
          /\ \A j \in 1..Len(gen.results[a].stream) :
                gen.results[a].stream[j] \in Range(SYMBOL_POOL)
          /\ gen.results[a].stream \in generate_incoming_stream(gen.results[a].n)
    /\ gen.pc \in {"push_back", "return"} =>
          /\ Len(gen.stream) = gen.i
          /\ gen.i <= gen.n
          /\ \A a \in 1..Len(gen.results) :
                (gen.results[a].n = gen.n /\ gen.results[a].seed = gen.seed)
                => SubSeq(gen.results[a].stream, 1, gen.i) = gen.stream

\* Two calls with the same count and seed have returned the same sequence of
\* two or more elements, not all alike, after which the engine was left in
\* a state other than the one the seed gives.
C12_Witness ==
    /\ Len(gen.results) = 2
    /\ gen.results[1].n >= 2
    /\ gen.results[1].n = gen.results[2].n
    /\ gen.results[1].seed = gen.results[2].seed
    /\ gen.results[1].stream = gen.results[2].stream
    /\ Cardinality(Range(gen.results[1].stream)) >= 2
    /\ gen.rng # SeedEngine(gen.seed, gen.rng)

----------------------------------------------------------------------------
(* Lock discipline of get_id (FairSpec).                                   *)

\* between line 62's acquisition and the return: the check, the insert
Holding(t) == pc[t] \in {"find", "new_id", "assign", "emplace", "return"}

LockDiscipline ==
    /\ \A t \in Threads : Holding(t) <=> mtx = t
    /\ Cardinality({t \in Threads : Holding(t)}) <= 1
    /\ Quiescent => mtx = NoOwner

\* C13: get_id takes the mutex before its first-seen check and releases it
\* on both exit paths: at most one call is between its check and its return
\* at a time (exactly the call that holds the mutex), the mutex is free
\* whenever no get_id call is in progress, and under fair scheduling every
\* one of finitely many concurrent calls eventually returns.
C13_LockDiscipline ==
    /\ []LockDiscipline
    /\ \A t \in Threads : InGetId(t) ~> (pc[t] = "idle" /\ result[t].op = "get_id")

\* Every call has been made, calls overlapped, one returned after the insert
\* and another by the early return, and the mutex is free.
C13_Witness ==
    /\ calls = MaxCalls
    /\ overlapped
    /\ Quiescent
    /\ mtx = NoOwner
    /\ \E t, u \in Threads :
          /\ t # u
          /\ DoneGetId(t) /\ inserted[t]
          /\ DoneGetId(u) /\ ~inserted[u]

----------------------------------------------------------------------------
(* The registry over a run of main (MainSpec).                             *)

\* the forward map that holds each pool symbol at its position in the pool
PoolIds == [s \in Range(SYMBOL_POOL) |->
               (CHOOSE j \in 1..Len(SYMBOL_POOL) : SYMBOL_POOL[j] = s) - 1]

\* main is at a loop over the workload that calls get_id per element
AtLookup == /\ main.pc \in {"warmup", "t1_registry", "sw_warmup", "sw_registry"}
            /\ main.i < Len(main.incoming)

Registered45 ==
    /\ Cardinality(Range(SYMBOL_POOL)) = 45
    /\ main.pc = "preregister" =>
          /\ id_to_string_ = SubSeq(SYMBOL_POOL, 1, main.i)
          /\ DOMAIN string_to_id_ = Range(id_to_string_)
    /\ main.pc \notin {"none", "args", "preregister"} =>
          /\ id_to_string_ = SYMBOL_POOL
          /\ Len(id_to_string_) = 45
          /\ string_to_id_ = PoolIds
          /\ string_to_id_["BTCUSD"] = 40
          /\ At(id_to_string_, 40) = "BTCUSD"
          /\ main.pc # "target" => main.target_id = 40
          /\ \A j \in 1..Len(main.incoming) : main.incoming[j] \in Range(SYMBOL_POOL)

\* C14: main registers every SYMBOL_POOL entry before it generates the
\* workload, whose elements all come from the pool, so from the end of
\* pre-registration to the end of the run the registry holds exactly 45
\* entries, IDs 0..44 in pool order with "BTCUSD" at ID 40, and every
\* get_id call made for the target ID, in the warm-ups and in the 1-to-1 and
\* 1-to-many scenarios finds its symbol and changes nothing.
C14_RegistryFixedAt45 ==
    [][ /\ Registered45'
        /\ main.pc = "target" =>
              /\ Found(string_to_id_, TARGET)
              /\ UNCHANGED <<string_to_id_, id_to_string_>>
        /\ AtLookup =>
              /\ Found(string_to_id_, main.incoming[main.i + 1])
              /\ main.i' = main.i + 1
              /\ UNCHANGED <<string_to_id_, id_to_string_>>
        /\ main.pc \notin {"args", "preregister"} =>
              UNCHANGED <<string_to_id_, id_to_string_>>
      ]_vars

\* A run on MaxIter elements, the target and another symbol among them, has
\* ended after the whole sweep with the 45 entries in place.
C14_Witness ==
    /\ main.pc = "exit"
    /\ exit_code = 0
    /\ main.ITERATIONS = MaxIter
    /\ TARGET \in Range(main.incoming)
    /\ Range(main.incoming) # {TARGET}
    /\ Len(id_to_string_) = 45
    /\ main.target_id = 40
    /\ Len(main.fanout_results) = 8

====
